---- MODULE Spec2Model ----
(***************************************************************************)
(* Model of exchange_rates.py: the symbol construction and fetch of        *)
(* get_exchange_rate, the gap filling of fill_missing_dates (pandas        *)
(* date_range / left merge / linear interpolate) and the control flow of   *)
(* main with its interactive and command-line input paths.                 *)
(*                                                                         *)
(* Dates are day numbers counted from 1 January of a reference year; a     *)
(* timestamp is a number of hours since that epoch.  Rates are exact       *)
(* rationals [num, den] in lowest terms (floating-point rounding is not    *)
(* modelled); NaN is the missing value of a rate column.                   *)
(***************************************************************************)
EXTENDS Integers, Sequences, FiniteSets, TLC

VARIABLES pc, today, base_currency, quote_currency, start_date, end_date,
          console, symbol, source, df, result, printed, exported, fetches

vars == <<pc, today, base_currency, quote_currency, start_date, end_date,
          console, symbol, source, df, result, printed, exported, fetches>>

(***************************************************************************)
(* Bounds of the model.                                                    *)
(***************************************************************************)
MaxDay == 4        \* fill_missing_dates is explored on days 0..MaxDay
MaxObs == 2        \* rows of a raw frame handed to fill_missing_dates
TodaySpan == 0     \* main runs on one of the first TodaySpan+1 days of a year
ObsSpan == 1       \* the source reports days at most this far from a window end
MaxFetched == 1    \* rows the source returns to one query

Rates == {100, 140}
UtcOffsets == {0, 1}

(***************************************************************************)
(* Calendar.                                                               *)
(***************************************************************************)
HoursPerDay == 24
DaysInYear == 365
LastYearDays == 365

Midnight(day) == day * HoursPerDay

\* Series.dt.date / DatetimeIndex.date: the calendar day of a naive timestamp
DtDate(ts) == ts \div HoursPerDay

\* the first of January of the year a day falls in
JanuaryFirst(day) == (day \div DaysInYear) * DaysInYear

\* a date string: well formed (it names a day) or not
DateStr(day) == [wellformed |-> TRUE, day |-> day]
Malformed == [wellformed |-> FALSE, day |-> 0]

(***************************************************************************)
(* Rates.                                                                  *)
(***************************************************************************)
NaN == [nan |-> TRUE, num |-> 0, den |-> 1]

Abs(n) == IF n < 0 THEN -n ELSE n

RECURSIVE GCD(_, _)
GCD(a, b) == IF b = 0 THEN a ELSE GCD(b, a % b)

\* the rational n/d, d > 0, in lowest terms
Rat(n, d) ==
    LET g == GCD(Abs(n), d)
    IN  [nan |-> FALSE, num |-> n \div g, den |-> d \div g]

Known(r) == Rat(r, 1)

RatAdd(a, b) == Rat(a.num * b.den + b.num * a.den, a.den * b.den)
RatSub(a, b) == Rat(a.num * b.den - b.num * a.den, a.den * b.den)
RatScale(a, k) == Rat(a.num * k, a.den)
RatOver(a, k) == Rat(a.num, a.den * k)

(***************************************************************************)
(* fill_missing_dates.                                                     *)
(***************************************************************************)

\* a timezone-aware timestamp is [wall, utcoffset]: the wall-clock time in
\* hours since the epoch and the offset of its zone from UTC in hours
\* (variant: tz_convert(None), which moves the time to UTC)
TzLocalizeWrong(ts) == ts.wall - ts.utcoffset
\* .dt.tz_localize(None): drop the zone, keep the wall-clock time
TzLocalizeNone(ts) == ts.wall

\* line 43: the Date column of the raw frame made timezone-naive
NaiveFrame(frame) ==
    [i \in 1..Len(frame) |->
        [Date |-> TzLocalizeNone(frame[i].Date), rate |-> Known(frame[i].rate)]]

\* (variant: a range that stops the day before end)
DateRangeOpenEnd(start, end) ==
    [i \in 1..(end - start) |-> Midnight(start + i - 1)]
\* pd.date_range(start, end, freq='D'): every midnight from start to end
DateRange(start, end) ==
    [i \in 1..(end - start + 1) |-> Midnight(start + i - 1)]

\* the rows of a frame whose Date is ts, in frame order
RECURSIVE Matching(_, _)
Matching(frame, ts) ==
    IF frame = <<>> THEN <<>>
    ELSE (IF Head(frame).Date = ts THEN <<Head(frame)>> ELSE <<>>)
         \o Matching(Tail(frame), ts)

\* pd.merge(complete_df, df, on='Date', how='left'): left order is kept, a
\* left row pairs with every matching right row, or with NaN when none does
RECURSIVE MergeLeft(_, _)
MergeLeft(left, right) ==
    IF Len(left) = 0 THEN <<>>
    ELSE IF Len(left) = 1
    THEN LET m == Matching(right, left[1])
         IN  IF m = <<>> THEN <<[Date |-> left[1], rate |-> NaN]>> ELSE m
    ELSE LET half == Len(left) \div 2
         IN  MergeLeft(SubSeq(left, 1, half), right)
             \o MergeLeft(SubSeq(left, half + 1, Len(left)), right)

\* (variant: carry the last valid value forward)
NpInterpStep(x, valid, col) ==
    LET below == {p \in valid : p <= x}
    IN  IF below = {} THEN NaN
        ELSE col[CHOOSE p \in below : \A q \in below : q <= p]
\* np.interp(x, xp, fp) for a position x and the valid positions xp: clamped
\* to the edge values outside them, on the chord between the two valid
\* neighbours inside them (slope * (x - xp[j]) + fp[j])
NpInterp(x, valid, col) ==
    LET below == {p \in valid : p <= x}
        above == {p \in valid : p > x}
    IN  IF below = {} THEN col[CHOOSE p \in above : \A q \in above : p <= q]
        ELSE IF above = {} THEN col[CHOOSE p \in below : \A q \in below : q <= p]
        ELSE LET j == CHOOSE p \in below : \A q \in below : q <= p
                 k == CHOOSE p \in above : \A q \in above : p <= q
                 slope == RatOver(RatSub(col[k], col[j]), k - j)
             IN  RatAdd(RatScale(slope, x - j), col[j])

\* Series.interpolate(method='linear'), limit_direction 'forward': the rows
\* count as equally spaced, NaNs before the first valid row are preserved,
\* NaNs after the last valid row take the clamped value of np.interp
Interpolate(col) ==
    LET valid == {p \in 1..Len(col) : ~ col[p].nan}
    IN  IF valid = {} THEN col
        ELSE [p \in 1..Len(col) |->
                IF p \in valid THEN col[p]
                ELSE IF \A q \in valid : p < q THEN NaN
                ELSE NpInterp(p, valid, col)]

\* sorted(s) for a set of days
Sorted(s) ==
    IF s = {} THEN <<>>
    ELSE LET lo == CHOOSE x \in s : \A y \in s : x <= y
             hi == CHOOSE x \in s : \A y \in s : y <= x
         IN  SelectSeq([i \in 1..(hi - lo + 1) |-> lo + i - 1], LAMBDA d : d \in s)

\* line 51: the days of the range that the raw frame does not have
missing_dates(frame, date_range) ==
    {DtDate(date_range[i]) : i \in 1..Len(date_range)}
        \ {DtDate(NaiveFrame(frame)[i].Date) : i \in 1..Len(frame)}

\* lines 52-56: one printed line per missing day, in date order, with the
\* rate of the first row of the merged frame that carries that day.  The
\* merged frame is in date order and has every day of the range, so these
\* are its rows that open a missing day, in frame order.
Report(missing, merged) ==
    LET opens(p) == /\ merged[p].Date \in missing
                    /\ p = 1 \/ merged[p - 1].Date # merged[p].Date
        at == SelectSeq([p \in 1..Len(merged) |-> p], opens)
    IN  [i \in 1..Len(at) |-> merged[at[i]]]

\* fill_missing_dates(df, start_date, end_date); pd.date_range raises on a
\* string that is not a date
fill_missing_dates(frame, start, end) ==
    IF ~ (start.wellformed /\ end.wellformed)
    THEN [raised |-> TRUE, rows |-> <<>>, printed |-> <<>>]
    ELSE LET date_range == DateRange(start.day, end.day)
             merged_df == MergeLeft(date_range, NaiveFrame(frame))
             filled == Interpolate([p \in 1..Len(merged_df) |-> merged_df[p].rate])
             dated == [p \in 1..Len(merged_df) |->
                          [Date |-> DtDate(merged_df[p].Date), rate |-> filled[p]]]
         IN  [raised |-> FALSE, rows |-> dated,
              printed |-> Report(missing_dates(frame, date_range), dated)]

(***************************************************************************)
(* get_exchange_rate.                                                      *)
(***************************************************************************)
AVAILABLE_CURRENCIES ==
    ("0" :> <<"EUR", "Euros">>) @@ ("1" :> <<"USD", "US Dollar">>) @@
    ("2" :> <<"GBP", "British Pound">>) @@ ("3" :> <<"JPY", "Japanese Yen">>) @@
    ("4" :> <<"CHF", "Swiss Franc">>) @@ ("5" :> <<"AUD", "Australian Dollar">>) @@
    ("6" :> <<"CAD", "Canadian Dollar">>) @@ ("7" :> <<"CNY", "Chinese Yuan">>) @@
    ("8" :> <<"HKD", "Hong Kong Dollar">>) @@ ("9" :> <<"NZD", "New Zealand Dollar">>) @@
    ("10" :> <<"SEK", "Swedish Krona">>) @@ ("11" :> <<"BTC", "Bitcoin">>)

\* str.upper() on the currency codes the model types in
Upper(s) ==
    CASE s = "eur" -> "EUR"
      [] s = "btc" -> "BTC"
      [] s = "Btc" -> "BTC"
      [] s = "chf" -> "CHF"
      [] OTHER -> s

\* (variant: the crypto test made on the base)
SymbolByBase(base, quote) ==
    IF Upper(base) = "BTC" THEN "BTC-" \o quote ELSE base \o quote \o "=X"
\* line 73: the symbol asked of the source
Symbol(base, quote) ==
    IF Upper(quote) = "BTC" THEN "BTC-" \o base ELSE base \o quote \o "=X"

\* (variant: a window that includes end)
HistoryDaysClosed(start, end) == start.day..end.day
\* line 76: history(start=start_date, end=end_date) asks for the days from
\* start up to, not including, end
HistoryDays(start, end) == start.day..(end.day - 1)

\* the frames the source may return to one query: at most MaxFetched rows in
\* date order, one per day, on days of the window at most ObsSpan from one of
\* its ends, all in the zone of the exchange
Fetched(start, end) ==
    IF ~ (start.wellformed /\ end.wellformed) THEN {<<>>}
    ELSE LET days == {d \in HistoryDays(start, end) :
                         d - start.day < ObsSpan \/ end.day - d <= ObsSpan}
         IN  UNION {
               UNION { { [i \in 1..Cardinality(S) |->
                           [Date |-> [wall |-> Midnight(Sorted(S)[i]), utcoffset |-> z],
                            rate |-> f[Sorted(S)[i]]]] : f \in [S -> Rates] }
                       : z \in UtcOffsets }
               : S \in {T \in SUBSET days : Cardinality(T) <= MaxFetched} }

None == [kind |-> "None", rows |-> <<>>]
Unset == [kind |-> "unset", rows |-> <<>>]
DataFrame(rows) == [kind |-> "df", rows |-> rows]

\* lines 75-82 when the source raises: the error is printed, None returned
get_exchange_rate_raised ==
    /\ pc = "fetch"
    /\ pc' = "returned"
    /\ symbol' = Symbol(base_currency, quote_currency)
    /\ fetches' = fetches + 1
    /\ source' = "raised"
    /\ result' = None
    /\ console' = "Error fetching data"
    /\ UNCHANGED <<today, base_currency, quote_currency, start_date, end_date,
                   df, printed, exported>>

\* lines 73-82 when the source returns a frame: it is completed by
\* fill_missing_dates, whose exception also ends in None
get_exchange_rate_fetched ==
    /\ pc = "fetch"
    /\ \E frame \in Fetched(start_date, end_date) :
          LET filled == fill_missing_dates(frame, start_date, end_date)
          IN  /\ df' = frame
              /\ result' = IF filled.raised THEN None ELSE DataFrame(filled.rows)
              /\ printed' = filled.printed
              /\ console' = IF filled.raised THEN "Error fetching data"
                            ELSE IF filled.printed # <<>>
                            THEN "Missing dates filled with interpolated values:"
                            ELSE console
    /\ pc' = "returned"
    /\ symbol' = Symbol(base_currency, quote_currency)
    /\ fetches' = fetches + 1
    /\ source' = "returned"
    /\ UNCHANGED <<today, base_currency, quote_currency, start_date, end_date,
                   exported>>

(***************************************************************************)
(* select_currency, select_timeframe, main.                                *)
(***************************************************************************)
Todays == DaysInYear..(DaysInYear + TodaySpan)

\* what the user may type
Choices == {"0", "4", "11", "12"}
TimeframeChoices == {"1", "2", "3", "4"}
NoArg == "<none>"
CliCodes == {"EUR", "eur", "BTC", "btc", "CHF", NoArg}
Absent == [wellformed |-> FALSE, day |-> -1]
TypedDates == {DateStr(d) : d \in (DaysInYear - 1)..(DaysInYear + TodaySpan)}
                 \cup {Malformed}

\* lines 163-164
Announce == "From start_date to end_date"

\* line 153, len(sys.argv) == 1: the interactive path opens with the prompt
\* of select_currency for the base currency
main_interactive ==
    /\ pc = "main"
    /\ pc' = "select_base"
    /\ console' = "Select base currency:"
    /\ UNCHANGED <<today, base_currency, quote_currency, start_date, end_date,
                   symbol, source, df, result, printed, exported, fetches>>

\* lines 98-102, one round of the loop of select_currency
select_currency(choice) ==
    /\ pc \in {"select_base", "select_quote"}
    /\ IF choice \in DOMAIN AVAILABLE_CURRENCIES
       THEN /\ base_currency' = IF pc = "select_base"
                                THEN AVAILABLE_CURRENCIES[choice][1]
                                ELSE base_currency
            /\ quote_currency' = IF pc = "select_quote"
                                 THEN AVAILABLE_CURRENCIES[choice][1]
                                 ELSE quote_currency
            /\ pc' = IF pc = "select_base" THEN "select_quote" ELSE "select_timeframe"
            /\ console' = IF pc = "select_base" THEN "Select quote currency:"
                          ELSE "Timeframe options:"
       ELSE /\ console' = "Invalid choice. Please try again."
            /\ UNCHANGED <<pc, base_currency, quote_currency>>
    /\ UNCHANGED <<today, start_date, end_date, symbol, source, df, result,
                   printed, exported, fetches>>

\* lines 116-140, one round of the outer loop of select_timeframe
select_timeframe(choice) ==
    /\ pc = "select_timeframe"
    /\ CASE choice = "1" ->
              /\ end_date' = DateStr(today)
              /\ start_date' = DateStr(today - LastYearDays)
              /\ pc' = "fetch"
              /\ console' = Announce
         [] choice = "2" ->
              /\ end_date' = DateStr(today)
              /\ start_date' = DateStr(JanuaryFirst(today))
              /\ pc' = "fetch"
              /\ console' = Announce
         [] choice = "3" ->
              /\ pc' = "custom_dates"
              /\ console' = "Enter start date (YYYY-MM-DD): "
              /\ UNCHANGED <<start_date, end_date>>
         [] OTHER ->
              /\ console' = "Invalid choice. Please try again."
              /\ UNCHANGED <<pc, start_date, end_date>>
    /\ UNCHANGED <<today, base_currency, quote_currency, symbol, source, df,
                   result, printed, exported, fetches>>

\* lines 130-138, one round of the inner loop: both strings must parse
custom_dates(start, end) ==
    /\ pc = "custom_dates"
    /\ IF start.wellformed /\ end.wellformed
       THEN /\ start_date' = start
            /\ end_date' = end
            /\ pc' = "fetch"
            /\ console' = Announce
       ELSE /\ console' = "Invalid date format. Please use YYYY-MM-DD format."
            /\ UNCHANGED <<pc, start_date, end_date>>
    /\ UNCHANGED <<today, base_currency, quote_currency, symbol, source, df,
                   result, printed, exported, fetches>>

\* lines 157-164, the command-line path; a missing positional argument is
\* None and None.upper() ends the run
main_cli(base, quote, start, end) ==
    /\ pc = "main"
    /\ IF base = NoArg \/ quote = NoArg
       THEN /\ pc' = "crashed"
            /\ console' = "AttributeError"
            /\ UNCHANGED <<base_currency, quote_currency, start_date, end_date>>
       ELSE /\ base_currency' = Upper(base)
            /\ quote_currency' = Upper(quote)
            /\ start_date' = IF start = Absent THEN DateStr(today - LastYearDays)
                             ELSE start
            /\ end_date' = IF end = Absent THEN DateStr(today) ELSE end
            /\ pc' = "fetch"
            /\ console' = Announce
    /\ UNCHANGED <<today, symbol, source, df, result, printed, exported, fetches>>

\* (variant: no test at all)
df_is_anything(r) == TRUE
\* line 168
df_is_not_None(r) == r.kind # "None"

\* lines 168-180
main_export ==
    /\ pc = "returned"
    /\ df_is_not_None(result)
    /\ exported' = TRUE
    /\ console' = "Basic statistics:"
    /\ pc' = "done"
    /\ UNCHANGED <<today, base_currency, quote_currency, start_date, end_date,
                   symbol, source, df, result, printed, fetches>>

\* lines 181-182
main_failed ==
    /\ pc = "returned"
    /\ ~ df_is_not_None(result)
    /\ console' = "Failed to fetch exchange rate data"
    /\ pc' = "done"
    /\ UNCHANGED <<today, base_currency, quote_currency, start_date, end_date,
                   symbol, source, df, result, printed, exported, fetches>>

Init ==
    /\ pc = "main"
    /\ today \in Todays
    /\ base_currency = ""
    /\ quote_currency = ""
    /\ start_date = Absent
    /\ end_date = Absent
    /\ console = ""
    /\ symbol = ""
    /\ source = "idle"
    /\ df = <<>>
    /\ result = Unset
    /\ printed = <<>>
    /\ exported = FALSE
    /\ fetches = 0

Next ==
    \/ main_interactive
    \/ \E choice \in Choices : select_currency(choice)
    \/ \E choice \in TimeframeChoices : select_timeframe(choice)
    \/ \E start \in TypedDates, end \in TypedDates : custom_dates(start, end)
    \/ \E base \in CliCodes, quote \in CliCodes,
          start \in TypedDates \cup {Absent}, end \in TypedDates \cup {Absent} :
          main_cli(base, quote, start, end)
    \/ get_exchange_rate_raised
    \/ get_exchange_rate_fetched
    \/ main_export
    \/ main_failed

Spec == Init /\ [][Next]_vars

(***************************************************************************)
(* fill_missing_dates on its own: every bound and every raw frame of the   *)
(* model, rows in any order and dates possibly repeated.                   *)
(***************************************************************************)
RawFrames ==
    UNION { UNION { { [i \in 1..n |->
                         [Date |-> [wall |-> Midnight(days[i]), utcoffset |-> z],
                          rate |-> rates[i]]]
                      : days \in [1..n -> 0..MaxDay], rates \in [1..n -> Rates] }
                    : z \in UtcOffsets }
            : n \in 0..MaxObs }

InitFill ==
    /\ pc = "fill_call"
    /\ today = DaysInYear
    /\ base_currency = "EUR"
    /\ quote_currency = "CHF"
    /\ \E s \in 0..MaxDay, e \in 0..MaxDay :
          /\ s <= e
          /\ start_date = DateStr(s)
          /\ end_date = DateStr(e)
    /\ console = ""
    /\ symbol = ""
    /\ source = "returned"
    /\ df \in RawFrames
    /\ result = Unset
    /\ printed = <<>>
    /\ exported = FALSE
    /\ fetches = 0

fill_call ==
    /\ pc = "fill_call"
    /\ LET filled == fill_missing_dates(df, start_date, end_date)
       IN  /\ result' = IF filled.raised THEN None ELSE DataFrame(filled.rows)
           /\ printed' = filled.printed
    /\ pc' = "fill_done"
    /\ UNCHANGED <<today, base_currency, quote_currency, start_date, end_date,
                   console, symbol, source, df, exported, fetches>>

NextFill == fill_call

SpecFill == InitFill /\ [][NextFill]_vars

(***************************************************************************)
(* Properties.                                                             *)
(***************************************************************************)
Returned == pc \in {"returned", "done"}
Filled == pc = "fill_done"

\* the calendar day a raw row was observed on, as the source states it
ObservedDay(row) == row.Date.wall \div HoursPerDay
ObservedDays == {ObservedDay(df[i]) : i \in 1..Len(df)}
UniqueDates == \A i, j \in 1..Len(df) : ObservedDay(df[i]) = ObservedDay(df[j]) => i = j
Bound == start_date.day..end_date.day
RowsOn(d) == {p \in 1..Len(result.rows) : result.rows[p].Date = d}
ObservedRate(d) == df[CHOOSE i \in 1..Len(df) : ObservedDay(df[i]) = d].rate
Before(d) == {o \in ObservedDays \cap Bound : o < d}
After(d) == {o \in ObservedDays \cap Bound : o > d}
Nearest(d, days) == CHOOSE o \in days : \A x \in days : Abs(x - d) >= Abs(o - d)

\* C1: with start <= end and every raw date at most once, the series has
\* (end - start) + 1 entries, begins on start, ends on end, and each entry
\* is dated one day after the entry before it.
C1_SeriesShape ==
    (Filled /\ UniqueDates /\ start_date.day <= end_date.day) =>
        /\ result.kind = "df"
        /\ Len(result.rows) = end_date.day - start_date.day + 1
        /\ result.rows[1].Date = start_date.day
        /\ result.rows[Len(result.rows)].Date = end_date.day
        /\ \A p \in 1..(Len(result.rows) - 1) :
              result.rows[p + 1].Date = result.rows[p].Date + 1

C1_Witness ==
    /\ Filled /\ UniqueDates
    /\ start_date.day + 2 <= end_date.day
    /\ Len(df) = 2
    /\ ObservedDay(df[1]) > ObservedDay(df[2])
    /\ ObservedDays \subseteq Bound
    /\ Len(result.rows) = end_date.day - start_date.day + 1

\* C2: a day of the bound without an observation, lying between observed
\* days of the bound, gets r0 + (r1 - r0) * (d - d0) / (d1 - d0) for the
\* nearest observed days d0 < d < d1 and their rates r0, r1; observations
\* day 1 = 100 and day 5 = 140 give day 3 = 120.
C2_LinearByCalendarDays ==
    (Filled /\ UniqueDates) =>
        \A d \in Bound \ ObservedDays :
            (Before(d) # {} /\ After(d) # {}) =>
                LET d0 == Nearest(d, Before(d))
                    d1 == Nearest(d, After(d))
                    r0 == ObservedRate(d0)
                    r1 == ObservedRate(d1)
                IN  /\ RowsOn(d) # {}
                    /\ \A p \in RowsOn(d) :
                          result.rows[p].rate
                              = Rat(r0 * (d1 - d0) + (r1 - r0) * (d - d0), d1 - d0)

C2_Witness ==
    /\ Filled /\ UniqueDates
    /\ start_date.day = 0 /\ end_date.day = 4
    /\ ObservedDays = {0, 4}
    /\ ObservedRate(0) = 100 /\ ObservedRate(4) = 140
    /\ result.rows[3] = [Date |-> 2, rate |-> Known(120)]
    /\ result.rows[2] = [Date |-> 1, rate |-> Known(110)]

\* C3: a day of the bound without an observation that lies before the first
\* or after the last observed day is left unfilled: it never carries a rate.
C3_EdgeGapsUnfilled ==
    (Filled /\ UniqueDates /\ ObservedDays # {}) =>
        \A d \in Bound \ ObservedDays :
            ((\A o \in ObservedDays : d < o) \/ (\A o \in ObservedDays : o < d)) =>
                \A p \in RowsOn(d) : result.rows[p].rate = NaN

\* C4: a fetch that succeeds with zero observations ends like a failed
\* fetch: get_exchange_rate returns no series and nothing is exported.
C4_NoDataIsFailure ==
    (Returned /\ source = "returned" /\ df = <<>>) =>
        (result = None /\ ~ exported)

\* C5: the symbol asked of the source is "BTC-" + base when the quote is
\* BTC and base + quote + "=X" otherwise; (EUR, BTC) asks BTC-EUR, (EUR, CHF)
\* asks EURCHF=X and (BTC, EUR) takes the FX form.
C5_SymbolForm ==
    Returned =>
        /\ quote_currency = "BTC" => symbol = "BTC-" \o base_currency
        /\ quote_currency # "BTC" => symbol = base_currency \o quote_currency \o "=X"
        /\ (base_currency = "EUR" /\ quote_currency = "BTC") => symbol = "BTC-EUR"
        /\ (base_currency = "EUR" /\ quote_currency = "CHF") => symbol = "EURCHF=X"
        /\ (base_currency = "BTC" /\ quote_currency = "EUR") => symbol = "BTCEUR=X"

C5_Witness ==
    /\ pc = "done"
    /\ base_currency = "BTC" /\ quote_currency = "EUR"
    /\ symbol = "BTCEUR=X"

\* C6: a day of the bound that has an observation keeps exactly the observed
\* rate, and when every day of the bound has one the series is the raw set.
C6_KnownRatesKept ==
    (Filled /\ UniqueDates) =>
        /\ \A d \in ObservedDays \cap Bound :
              /\ RowsOn(d) # {}
              /\ \A p \in RowsOn(d) : result.rows[p].rate = Known(ObservedRate(d))
        /\ (Bound # {} /\ Bound \subseteq ObservedDays) =>
              {<<result.rows[p].Date, result.rows[p].rate>> : p \in 1..Len(result.rows)}
                  = {<<d, Known(ObservedRate(d))>> : d \in Bound}

C6_Witness ==
    /\ Filled /\ UniqueDates
    /\ Cardinality(Bound) = 2
    /\ Bound = ObservedDays
    /\ df[1].Date.utcoffset = 1
    /\ ObservedRate(start_date.day) # ObservedRate(end_date.day)
    /\ Len(result.rows) = 2

\* C7: a run queries the source at most once, exports only after
\* get_exchange_rate returned a series, and after a failed fetch or a failed
\* completion ends by reporting the failure without exporting.
C7_ExportOnlyAfterSeries ==
    /\ fetches <= 1
    /\ exported => (result.kind = "df" /\ fetches = 1 /\ source = "returned")
    /\ source = "raised" => result = None
    /\ (pc = "done" /\ result = None) =>
          (~ exported /\ console = "Failed to fetch exchange rate data")

C7_Witness ==
    /\ pc = "done"
    /\ source = "returned"
    /\ ~ start_date.wellformed
    /\ result = None
    /\ ~ exported

\* C8: the bound main hands to get_exchange_rate has start <= end.
C8_StartNotAfterEnd ==
    (pc = "fetch" /\ start_date.wellformed /\ end_date.wellformed) =>
        start_date.day <= end_date.day

\* C9: a date the raw frame repeats has exactly one entry in the series, and
\* its rate is the last of the repeated rows.
C9_DuplicateLastSeen ==
    Filled =>
        /\ result.kind = "df"
        /\ \A d \in ObservedDays \cap Bound :
              LET rows == {i \in 1..Len(df) : ObservedDay(df[i]) = d}
                  last == CHOOSE i \in rows : \A j \in rows : j <= i
              IN  Cardinality(rows) > 1 =>
                     /\ Cardinality(RowsOn(d)) = 1
                     /\ \A p \in RowsOn(d) : result.rows[p].rate = Known(df[last].rate)

\* C10: the source is asked for [start, end) and the series covers
\* [start, end], so the end date is never an observation: it is always
\* among the filled days, and with start = end the raw set is empty.
C10_EndDateAlwaysFilled ==
    (Returned /\ result.kind = "df" /\ start_date.day <= end_date.day) =>
        /\ end_date.day \notin ObservedDays
        /\ \E i \in 1..Len(printed) : printed[i].Date = end_date.day
        /\ start_date.day = end_date.day => df = <<>>

C10_Witness ==
    /\ pc = "done"
    /\ result.kind = "df"
    /\ end_date.day - 1 \in ObservedDays
    /\ start_date.day < end_date.day - 1
    /\ printed[Len(printed)].Date = end_date.day

====
